---- MODULE Spec2Model ----
(***************************************************************************)
(* GPU detection and normalization engine of the video processor           *)
(* (utils/detectGpu.go).  A Go string is a sequence of one-character       *)
(* strings, so that substring tests, trimming, splitting and lower-casing  *)
(* are computed as strings.Contains, TrimSpace, Split and ToLower compute  *)
(* them.  The Error field, which the code never takes apart, is kept as a  *)
(* string atom with "" for the empty string.                               *)
(***************************************************************************)
EXTENDS Integers, Sequences, FiniteSets, TLC

VARIABLES goos, pc, gpus, calls, ret, reterr, existing, new, result, mpc,
          fn, arg, out, cfg, attempts, perr, ppc

vars == <<goos, pc, gpus, calls, ret, reterr, existing, new, result, mpc, fn, arg, out,
          cfg, attempts, perr, ppc>>
runVars == <<goos, pc, gpus, calls, ret, reterr>>
mergeVars == <<existing, new, result, mpc>>
callVars == <<fn, arg, out>>
procVars == <<cfg, attempts, perr, ppc>>

----------------------------------------------------------------------------
(* Bounds *)

\* longest existing / new sequence handed to mergeLinuxGPUInfo on its own
MaxMergeLen == 2

\* most fragments an external command's output is put together from
MaxFragments == 2

\* most pieces a key/value text handed to a block-splitting parser is put together from
MaxPieces == 4

\* most records of a detection result handed to configureProcessing
MaxGPUs == 2

\* most words a model string handed to determineVendorFromOutput is put together from
MaxWords == 3

----------------------------------------------------------------------------
(* package strings *)

Whitespace == {" ", "\t", "\n", "\r", "\f"}

UpperCase == <<"A","B","C","D","E","F","G","H","I","J","K","L","M","N","O","P","Q","R","<<",">>T","U","V","W","X","Y","Z">>

LowerCase == <<"a","b","c","d","e","f","g","h","i","j","k","l","m","n","o","p","q","r","s","t","u","v","w","x","y","z">>

ToLowerChar(c) ==
    IF \E i \in DOMAIN UpperCase : UpperCase[i] = c
    THEN LowerCase[CHOOSE i \in DOMAIN UpperCase : UpperCase[i] = c]
    ELSE c

ToLower(s) == [i \in 1..Len(s) |-> ToLowerChar(s[i])]

MinOf(S) == CHOOSE x \in S : \A y \in S : x <= y

MaxOf(S) == CHOOSE x \in S : \A y \in S : x >= y

\* strings.Index, 1-based; 0 when sub does not occur
IndexOf(s, sub) ==
    LET at == {i \in 1..(Len(s) - Len(sub) + 1) : SubSeq(s, i, i + Len(sub) - 1) = sub}
    IN  IF at = {} THEN 0 ELSE MinOf(at)

Contains(s, sub) == IndexOf(s, sub) # 0

\* sub occurs in s at index i
OccursAt(s, i, sub) == i >= 1 /\ i + Len(sub) - 1 <= Len(s) /\ SubSeq(s, i, i + Len(sub) - 1) = sub

HasPrefix(s, p) == Len(s) >= Len(p) /\ SubSeq(s, 1, Len(p)) = p

TrimPrefix(s, p) == IF HasPrefix(s, p) THEN SubSeq(s, Len(p) + 1, Len(s)) ELSE s

TrimSpace(s) ==
    LET keep == {i \in 1..Len(s) : s[i] \notin Whitespace}
    IN  IF keep = {} THEN <<>> ELSE SubSeq(s, MinOf(keep), MaxOf(keep))

RECURSIVE Split(_, _)
\* strings.Split with a non-empty separator: always at least one part
Split(s, sep) ==
    LET i == IndexOf(s, sep)
    IN  IF i = 0 THEN <<s>>
        ELSE <<SubSeq(s, 1, i - 1)>> \o Split(SubSeq(s, i + Len(sep), Len(s)), sep)

\* strings.SplitN(s, sep, 2)
SplitN2(s, sep) ==
    LET i == IndexOf(s, sep)
    IN  IF i = 0 THEN <<s>>
        ELSE <<SubSeq(s, 1, i - 1), SubSeq(s, i + Len(sep), Len(s))>>

SeqsUpTo(S, n) == UNION {[1..k -> S] : k \in 0..n}

----------------------------------------------------------------------------
(* type GPUInfo *)

GPUInfo(vendor, model, memory, driver, pci, raw, error) ==
    [Vendor |-> vendor, Model |-> model, Memory |-> memory, DriverVersion |-> driver,
     PCIAddress |-> pci, RawOutput |-> raw, Error |-> error]

EmptyStr == <<>>

Nvidia == <<"n","v","i","d","i","a">>
Amd == <<"a","m","d">>
Intel == <<"i","n","t","e","l">>
Apple == <<"a","p","p","l","e">>
Unknown == <<"u","n","k","n","o","w","n">>

----------------------------------------------------------------------------
(* Classification and text helpers *)

NL == <<"\n">>

Colon == <<":">>

Digits == <<"0","1","2","3","4","5","6","7","8","9">>

DigitChars == {Digits[i] : i \in DOMAIN Digits}

IsDigit(c) == c \in DigitChars

DigitValue(c) == (CHOOSE i \in DOMAIN Digits : Digits[i] = c) - 1

HexDigits == {"0","1","2","3","4","5","6","7","8","9","a","b","c","d","e","f"}

\* end of the maximal run of characters of class that starts at from: the
\* index of the first character at or after from outside class (Len+1 if none)
RunEnd(s, from, class) ==
    LET stop == {i \in from..Len(s) : s[i] \notin class}
    IN  IF stop = {} THEN Len(s) + 1 ELSE MinOf(stop)

\* index of the first c at or after from, Len+1 if none
IndexFrom(s, from, c) ==
    LET at == {i \in from..Len(s) : s[i] = c}
    IN  IF at = {} THEN Len(s) + 1 ELSE MinOf(at)

\* end of the line that position from is on
LineEnd(s, from) == IndexFrom(s, from, "\n")

ContainsAny(s, patterns) == \E i \in DOMAIN patterns : Contains(s, patterns[i])

genericTerms == <<<<"b","a","s","i","c">>, <<"g","e","n","e","r","i","c">>, <<"s","t","a","n","d","a","r","d">>, <<"v","n","c">>, <<"v","i","r","t","u","a","l">>, <<"v","m","w","a","r","e">>, <<"v","b","o","x">>>>

isGenericGPU(model) == ContainsAny(ToLower(model), genericTerms)

nvidiaPatterns == <<<<"n","v","i","d","i","a">>, <<"g","e","f","o","r","c","e">>, <<"q","u","a","d","r","o">>, <<"t","e","s","l","a">>, <<"r","t","x">>, <<"g","t","x">>, <<"t","i","t","a","n">>, <<"n","v","s">>>>

amdPatterns == <<<<"a","m","d">>, <<"r","a","d","e","o","n">>, <<"r","x"," ">>, <<"v","e","g","a">>, <<"n","a","v","i">>, <<"r","d","n","a">>, <<"a","t","i">>, <<"f","i","r","e","p","r","o">>, <<"f","i","r","e","g","l">>>>

intelPatterns == <<<<"i","n","t","e","l">>, <<"i","r","i","s">>, <<"u","h","d"," ","g","r","a","p","h","i","c","s">>, <<"h","d"," ","g","r","a","p","h","i","c","s">>, <<"x","e"," ","g","r","a","p","h","i","c","s">>, <<"a","r","c">>>>

applePatterns == <<<<"a","p","p","l","e">>, <<"m","1">>, <<"m","2">>, <<"m","3">>, <<"m","4">>>>

\* the Intel group tested before the AMD group
determineVendorIntelFirst(output) ==
    LET lower == ToLower(output)
    IN  IF ContainsAny(lower, nvidiaPatterns) THEN Nvidia
        ELSE IF ContainsAny(lower, intelPatterns) THEN Intel
        ELSE IF ContainsAny(lower, amdPatterns) THEN Amd
        ELSE IF ContainsAny(lower, applePatterns) THEN Apple
        ELSE Unknown

determineVendorFromOutput(output) ==
    LET lower == ToLower(output)
    IN  IF ContainsAny(lower, nvidiaPatterns) THEN Nvidia
        ELSE IF ContainsAny(lower, amdPatterns) THEN Amd
        ELSE IF ContainsAny(lower, intelPatterns) THEN Intel
        ELSE IF ContainsAny(lower, applePatterns) THEN Apple
        ELSE Unknown

\* the default branch returning the vendor as reported
normalizeVendorNameKeepsCase(vendor) ==
    LET lower == ToLower(vendor)
    IN  IF Contains(lower, <<"n","v","i","d","i","a">>) THEN Nvidia
        ELSE IF Contains(lower, <<"a","m","d">>) \/ Contains(lower, <<"a","t","i">>) THEN Amd
        ELSE IF Contains(lower, <<"i","n","t","e","l">>) THEN Intel
        ELSE IF Contains(lower, <<"a","p","p","l","e">>) THEN Apple
        ELSE vendor

normalizeVendorName(vendor) ==
    LET lower == ToLower(vendor)
    IN  IF Contains(lower, <<"n","v","i","d","i","a">>) THEN Nvidia
        ELSE IF Contains(lower, <<"a","m","d">>) \/ Contains(lower, <<"a","t","i">>) THEN Amd
        ELSE IF Contains(lower, <<"i","n","t","e","l">>) THEN Intel
        ELSE IF Contains(lower, <<"a","p","p","l","e">>) THEN Apple
        ELSE lower

RECURSIVE SplitBlocksFrom(_, _, _)
\* the loop of splitIntoBlocks over the remaining lines, then the final flush
SplitBlocksFrom(lines, blocks, currentBlock) ==
    IF Len(lines) = 0
    THEN IF Len(currentBlock) > 0 THEN Append(blocks, currentBlock) ELSE blocks
    ELSE LET line == Head(lines)
         IN  IF TrimSpace(line) = EmptyStr /\ Len(currentBlock) > 0
             THEN SplitBlocksFrom(Tail(lines), Append(blocks, currentBlock), EmptyStr)
             ELSE IF TrimSpace(line) # EmptyStr
             THEN SplitBlocksFrom(Tail(lines), blocks,
                      IF Len(currentBlock) > 0 THEN currentBlock \o NL \o line ELSE line)
             ELSE SplitBlocksFrom(Tail(lines), blocks, currentBlock)

\* every line taken as a block of its own
splitIntoBlocksEveryLine(output) == Split(output, NL)

splitIntoBlocks(output) == SplitBlocksFrom(Split(output, NL), <<>>, EmptyStr)

RECURSIVE ParseInt(_, _)
\* strconv.ParseInt of a run of decimal digits, acc the value read so far
ParseInt(ds, acc) ==
    IF Len(ds) = 0 THEN acc ELSE ParseInt(Tail(ds), acc * 10 + DigitValue(Head(ds)))

RECURSIVE Itoa(_)
Itoa(n) == IF n < 10 THEN <<Digits[n + 1]>> ELSE Itoa(n \div 10) \o <<Digits[(n % 10) + 1]>>

GiB == 1073741824

MiB == 1048576

\* fmt.Sprintf("%.1f GB", float64(bytes)/GiB): tenths of a GiB rounded to nearest
\* (no byte count lies exactly between two tenths), computed without overflow
FormatGB(bytes) ==
    LET rem == bytes % GiB
        tenths == (bytes \div GiB) * 10
                  + (((rem \div 1024) * 10 + ((rem % 1024) * 10) \div 1024 + 524288) \div MiB)
    IN  Itoa(tenths \div 10) \o <<".">> \o Itoa(tenths % 10) \o <<" ","G","B">>

\* the quotient truncated instead of rounded
FormatMBTruncated(bytes) == Itoa(bytes \div MiB) \o <<" ","M","B">>

\* fmt.Sprintf("%.0f MB", float64(bytes)/MiB): rounded to nearest, ties to even
FormatMB(bytes) ==
    LET q == bytes \div MiB
        r == bytes % MiB
        rounded == IF r > 524288 \/ (r = 524288 /\ q % 2 = 1) THEN q + 1 ELSE q
    IN  Itoa(rounded) \o <<" ","M","B">>

\* regexp \d+ FindString: the first maximal run of digits, "" when there is none
FirstDigitRun(s) ==
    LET at == {i \in 1..Len(s) : IsDigit(s[i])}
    IN  IF at = {} THEN EmptyStr
        ELSE SubSeq(s, MinOf(at), RunEnd(s, MinOf(at), DigitChars) - 1)

formatMemory(memStr) ==
    LET match == FirstDigitRun(memStr)
    IN  IF match # EmptyStr
        THEN LET bytes == ParseInt(match, 0)
             IN  IF bytes >= GiB THEN FormatGB(bytes)
                 ELSE IF bytes >= MiB THEN FormatMB(bytes)
                 ELSE memStr
        ELSE memStr

\* regexp size:\s*(\d+)\s*bytes on one line: the digits of the leftmost match
extractMemoryFromSize(line) ==
    LET key == <<"s","i","z","e",":">>
        word == <<"b","y","t","e","s">>
        ok(i) == /\ OccursAt(line, i, key)
                 /\ LET d == RunEnd(line, i + Len(key), Whitespace)
                        e == RunEnd(line, d, DigitChars)
                        b == RunEnd(line, e, Whitespace)
                    IN  e > d /\ OccursAt(line, b, word)
        at == {i \in 1..Len(line) : ok(i)}
    IN  IF at = {} THEN EmptyStr
        ELSE LET d == RunEnd(line, MinOf(at) + Len(key), Whitespace)
             IN  formatMemory(SubSeq(line, d, RunEnd(line, d, DigitChars) - 1))

\* regexp ^([0-9a-f]{2}:[0-9a-f]{2}\.[0-9a-f]) on a line
HasPCIPrefix(line) ==
    /\ Len(line) >= 7
    /\ line[1] \in HexDigits /\ line[2] \in HexDigits /\ line[3] = ":"
    /\ line[4] \in HexDigits /\ line[5] \in HexDigits /\ line[6] = "."
    /\ line[7] \in HexDigits

extractPCIAddress(output, model) ==
    LET lines == Split(output, NL)
        hit == {i \in 2..Len(lines) : Contains(lines[i], model) /\ HasPCIPrefix(lines[i - 1])}
    IN  IF hit = {} THEN EmptyStr ELSE SubSeq(lines[MinOf(hit) - 1], 1, 7)

\* regexp NVIDIA.*?(\d+\.\d+(?:\.\d+)?): the version after the leftmost "NVIDIA"
\* that has one on its line; the lazy .*? stops at the first position a version starts
extractNvidiaVersionFromProc(data) ==
    LET key == <<"N","V","I","D","I","A">>
        VersionEnd(d) ==   \* 0 when no \d+\.\d+ starts at d, else the index after it
            LET e1 == RunEnd(data, d, DigitChars)
                e2 == RunEnd(data, e1 + 1, DigitChars)
                e3 == RunEnd(data, e2 + 1, DigitChars)
            IN  IF ~(e1 > d /\ e1 <= Len(data) /\ data[e1] = "." /\ e2 > e1 + 1) THEN 0
                ELSE IF e2 <= Len(data) /\ data[e2] = "." /\ e3 > e2 + 1 THEN e3
                ELSE e2
        Starts(i) == {d \in (i + Len(key))..(LineEnd(data, i + Len(key)) - 1) : VersionEnd(d) # 0}
        at == {i \in 1..Len(data) : OccursAt(data, i, key) /\ Starts(i) # {}}
    IN  IF at = {} THEN EmptyStr
        ELSE LET d == MinOf(Starts(MinOf(at)))
             IN  SubSeq(data, d, VersionEnd(d) - 1)

----------------------------------------------------------------------------
(* Output parsers *)

NoGPU == GPUInfo(EmptyStr, EmptyStr, EmptyStr, EmptyStr, EmptyStr, EmptyStr, "")

\* one line of a key/value block in parseWindowsGPUOutput
WindowsLine(gpu, rawLine) ==
    LET line == TrimSpace(rawLine)
        parts == SplitN2(line, Colon)
    IN  IF line = EmptyStr \/ Len(parts) # 2 THEN gpu
        ELSE LET key == TrimSpace(ToLower(parts[1]))
                 value == TrimSpace(parts[2])
             IN  IF Contains(key, <<"n","a","m","e">>) THEN [gpu EXCEPT !.Model = value]
                 ELSE IF Contains(key, <<"v","i","d","e","o","p","r","o","c","e","s","s","o","r">>)
                      THEN IF gpu.Model = EmptyStr THEN [gpu EXCEPT !.Model = value] ELSE gpu
                 ELSE IF Contains(key, <<"d","r","i","v","e","r","v","e","r","s","i","o","n">>) THEN [gpu EXCEPT !.DriverVersion = value]
                 ELSE IF Contains(key, <<"a","d","a","p","t","e","r","r","a","m">>) THEN [gpu EXCEPT !.Memory = formatMemory(value)]
                 ELSE gpu

\* one line of a block in parseLinuxLshwOutput
LshwLine(gpu, rawLine) ==
    LET line == TrimSpace(rawLine)
    IN  IF HasPrefix(line, <<"p","r","o","d","u","c","t",":">>)
        THEN [gpu EXCEPT !.Model = TrimSpace(TrimPrefix(line, <<"p","r","o","d","u","c","t",":">>))]
        ELSE IF HasPrefix(line, <<"v","e","n","d","o","r",":">>)
        THEN LET vendor == TrimSpace(TrimPrefix(line, <<"v","e","n","d","o","r",":">>))
             IN  IF gpu.Vendor = EmptyStr \/ gpu.Vendor = Unknown
                 THEN [gpu EXCEPT !.Vendor = normalizeVendorName(vendor)]
                 ELSE gpu
        ELSE IF Contains(line, <<"s","i","z","e",":">>) /\ Contains(line, <<"b","y","t","e","s">>)
        THEN [gpu EXCEPT !.Memory = extractMemoryFromSize(line)]
        ELSE gpu

\* one line of a block in parseMacGPUOutput
MacLine(gpu, rawLine) ==
    LET line == TrimSpace(rawLine)
        parts == SplitN2(line, Colon)
    IN  IF Contains(line, <<"C","h","i","p","s","e","t"," ","M","o","d","e","l",":">>)
        THEN IF Len(parts) = 2 THEN [gpu EXCEPT !.Model = TrimSpace(parts[2])] ELSE gpu
        ELSE IF Contains(line, <<"V","R","A","M">>) /\ Contains(line, Colon)
        THEN IF Len(parts) = 2 THEN [gpu EXCEPT !.Memory = TrimSpace(parts[2])] ELSE gpu
        ELSE gpu

\* the line handling of the block parser named
BlockLine(parser, gpu, rawLine) ==
    IF parser = "windows" THEN WindowsLine(gpu, rawLine)
    ELSE IF parser = "lshw" THEN LshwLine(gpu, rawLine)
    ELSE MacLine(gpu, rawLine)

RECURSIVE ScanLines(_, _, _)
\* the inner loop of a block parser: each line of the block handled in turn
ScanLines(parser, gpu, lines) ==
    IF Len(lines) = 0 THEN gpu
    ELSE ScanLines(parser, BlockLine(parser, gpu, Head(lines)), Tail(lines))

\* what the key/value parser does with one block: the records it appends
WindowsBlock(block) ==
    LET gpu == ScanLines("windows", [NoGPU EXCEPT !.RawOutput = block], Split(block, NL))
    IN  IF gpu.Model # EmptyStr /\ ~isGenericGPU(gpu.Model)
        THEN <<[gpu EXCEPT !.Vendor = determineVendorFromOutput(gpu.Model)]>>
        ELSE <<>>

LshwBlock(block) ==
    LET gpu == ScanLines("lshw", [NoGPU EXCEPT !.RawOutput = block], Split(block, NL))
    IN  IF gpu.Model # EmptyStr /\ ~isGenericGPU(gpu.Model)
        THEN IF gpu.Vendor = EmptyStr \/ gpu.Vendor = Unknown
             THEN <<[gpu EXCEPT !.Vendor = determineVendorFromOutput(gpu.Model)]>>
             ELSE <<gpu>>
        ELSE <<>>

MacBlock(block) ==
    LET gpu == ScanLines("mac", [NoGPU EXCEPT !.RawOutput = block], Split(block, NL))
    IN  IF gpu.Model # EmptyStr
        THEN <<[gpu EXCEPT !.Vendor = determineVendorFromOutput(gpu.Model)]>>
        ELSE <<>>

\* regexp "<key>":\s*"([^"]+)" FindStringSubmatch on a block: the captured
\* text of the leftmost match, "" when there is none
JSONStringField(block, key) ==
    LET head == <<"\"">> \o key \o <<"\"", ":">>
        Open(i) == RunEnd(block, i + Len(head), Whitespace)
        Close(i) == IndexFrom(block, Open(i) + 1, "\"")
        ok(i) == /\ OccursAt(block, i, head)
                 /\ Open(i) <= Len(block) /\ block[Open(i)] = "\""
                 /\ Close(i) > Open(i) + 1 /\ Close(i) <= Len(block)
        at == {i \in 1..Len(block) : ok(i)}
    IN  IF at = {} THEN EmptyStr
        ELSE SubSeq(block, Open(MinOf(at)) + 1, Close(MinOf(at)) - 1)

\* regexp "<key>":\s*(\d+) FindStringSubmatch on a block
JSONNumberField(block, key) ==
    LET head == <<"\"">> \o key \o <<"\"", ":">>
        Start(i) == RunEnd(block, i + Len(head), Whitespace)
        ok(i) == OccursAt(block, i, head) /\ RunEnd(block, Start(i), DigitChars) > Start(i)
        at == {i \in 1..Len(block) : ok(i)}
    IN  IF at = {} THEN EmptyStr
        ELSE SubSeq(block, Start(MinOf(at)), RunEnd(block, Start(MinOf(at)), DigitChars) - 1)

JSONBlock(block) ==
    LET name == JSONStringField(block, <<"N","a","m","e">>)
        driver == JSONStringField(block, <<"D","r","i","v","e","r","V","e","r","s","i","o","n">>)
        ram == JSONNumberField(block, <<"A","d","a","p","t","e","r","R","A","M">>)
    IN  IF name # EmptyStr /\ ~isGenericGPU(name)
        THEN <<GPUInfo(determineVendorFromOutput(name), name,
                       IF ram # EmptyStr THEN formatMemory(ram) ELSE EmptyStr,
                       driver, EmptyStr, block, "")>>
        ELSE <<>>

\* what the parser named appends for one block
BlockRecords(parser, block) ==
    IF parser = "json" THEN JSONBlock(block)
    ELSE IF parser = "windows" THEN WindowsBlock(block)
    ELSE IF parser = "lshw" THEN LshwBlock(block)
    ELSE MacBlock(block)

RECURSIVE ParseBlocks(_, _)
\* the loop over blocks: the records appended, in block order
ParseBlocks(parser, blocks) ==
    IF Len(blocks) = 0 THEN <<>>
    ELSE BlockRecords(parser, Head(blocks)) \o ParseBlocks(parser, Tail(blocks))

parseWindowsJSONOutput(output) == ParseBlocks("json", Split(output, <<"}",",","{">>))

parseWindowsGPUOutput(output) ==
    IF Contains(output, <<"{">>) /\ Contains(output, <<"}">>)
    THEN parseWindowsJSONOutput(output)
    ELSE ParseBlocks("windows", splitIntoBlocks(output))

parseLinuxLshwOutput(output) == ParseBlocks("lshw", splitIntoBlocks(output))

parseMacGPUOutput(output) == ParseBlocks("mac", splitIntoBlocks(output))

\* the regexp (?i)(VGA|3D|Display).*?:\s*(.+) tried at index p of the output:
\* <<first, last>> of the captured group 2, or <<0, 0>> when it does not match at p.
\* .*? stays on the line and stops at the first colon after which \s*(.+) can
\* match; \s* takes the whole whitespace run (line ends included) and gives
\* characters back only when the run reaches the end of the text; (.+) runs to
\* the end of its line.
LspciMatchAt(output, p) ==
    LET lower == ToLower(output)
        kw == IF OccursAt(lower, p, <<"v","g","a">>) THEN 3
              ELSE IF OccursAt(lower, p, <<"3","d">>) THEN 2
              ELSE IF OccursAt(lower, p, <<"d","i","s","p","l","a","y">>) THEN 7
              ELSE 0
        Rest(q) ==
            LET e == RunEnd(output, q, Whitespace)
                back == {t \in q..Len(output) : output[t] # "\n"}
            IN  IF e <= Len(output) THEN <<e, LineEnd(output, e) - 1>>
                ELSE IF back # {} THEN <<MaxOf(back), MaxOf(back)>>
                ELSE <<0, 0>>
        colons == {c \in (p + kw)..(LineEnd(output, p + kw) - 1) :
                      output[c] = ":" /\ Rest(c + 1) # <<0, 0>>}
    IN  IF kw = 0 \/ colons = {} THEN <<0, 0>> ELSE Rest(MinOf(colons) + 1)

RECURSIVE LspciModels(_, _)
\* FindAllStringSubmatch from index from on: the trimmed group 2 of each
\* successive non-overlapping match
LspciModels(output, from) ==
    LET at == {p \in from..Len(output) : LspciMatchAt(output, p) # <<0, 0>>}
    IN  IF at = {} THEN <<>>
        ELSE LET m == LspciMatchAt(output, MinOf(at))
             IN  <<TrimSpace(SubSeq(output, m[1], m[2]))>> \o LspciModels(output, m[2] + 1)

\* what parseLinuxLspciOutput appends for one match
LspciMatch(output, model) ==
    IF ~isGenericGPU(model)
    THEN <<GPUInfo(determineVendorFromOutput(model), model, EmptyStr, EmptyStr,
                   extractPCIAddress(output, model), output, "")>>
    ELSE <<>>

RECURSIVE LspciRecords(_, _)
\* the loop over matches
LspciRecords(output, models) ==
    IF Len(models) = 0 THEN <<>>
    ELSE LspciMatch(output, Head(models)) \o LspciRecords(output, Tail(models))

parseLinuxLspciOutput(output) == LspciRecords(output, LspciModels(output, 1))

\* what parseLinuxGLXOutput appends for one line
GLXLine(output, line) ==
    LET parts == SplitN2(line, Colon)
    IN  IF Contains(line, <<"O","p","e","n","G","L"," ","r","e","n","d","e","r","e","r"," ","s","t","r","i","n","g",":">>) /\ Len(parts) = 2
           /\ ~isGenericGPU(TrimSpace(parts[2]))
        THEN <<GPUInfo(determineVendorFromOutput(TrimSpace(parts[2])), TrimSpace(parts[2]),
                       EmptyStr, EmptyStr, EmptyStr, output, "")>>
        ELSE <<>>

RECURSIVE GLXRecords(_, _)
\* the loop over lines
GLXRecords(output, lines) ==
    IF Len(lines) = 0 THEN <<>>
    ELSE GLXLine(output, Head(lines)) \o GLXRecords(output, Tail(lines))

parseLinuxGLXOutput(output) == GLXRecords(output, Split(output, NL))

----------------------------------------------------------------------------
(* mergeLinuxGPUInfo and areGPUsSimilar *)

\* the vendor comparison left out
areGPUsSimilarAnyVendor(gpu1, gpu2) ==
    Contains(gpu1.Model, gpu2.Model) \/ Contains(gpu2.Model, gpu1.Model)

areGPUsSimilar(gpu1, gpu2) ==
    /\ gpu1.Vendor = gpu2.Vendor
    /\ (Contains(gpu1.Model, gpu2.Model) \/ Contains(gpu2.Model, gpu1.Model))

\* the "is empty" halves of the three tests left out
BackFillOverwrite(old, newGPU) ==
    [old EXCEPT !.Memory = IF newGPU.Memory # EmptyStr THEN newGPU.Memory ELSE @,
                !.DriverVersion = IF newGPU.DriverVersion # EmptyStr THEN newGPU.DriverVersion ELSE @,
                !.PCIAddress = IF newGPU.PCIAddress # EmptyStr THEN newGPU.PCIAddress ELSE @]

\* the memory test left out
BackFillNoMemory(old, newGPU) ==
    [old EXCEPT !.DriverVersion = IF @ = EmptyStr /\ newGPU.DriverVersion # EmptyStr THEN newGPU.DriverVersion ELSE @,
                !.PCIAddress = IF @ = EmptyStr /\ newGPU.PCIAddress # EmptyStr THEN newGPU.PCIAddress ELSE @]

\* the body of the "Merge information" branch: result[i] after the three ifs
BackFill(old, newGPU) ==
    [old EXCEPT !.Memory = IF @ = EmptyStr /\ newGPU.Memory # EmptyStr THEN newGPU.Memory ELSE @,
                !.DriverVersion = IF @ = EmptyStr /\ newGPU.DriverVersion # EmptyStr THEN newGPU.DriverVersion ELSE @,
                !.PCIAddress = IF @ = EmptyStr /\ newGPU.PCIAddress # EmptyStr THEN newGPU.PCIAddress ELSE @]

\* the last similar record taken instead of the first
LastSimilar(res, newGPU) ==
    LET hit == {i \in 1..Len(res) : areGPUsSimilar(res[i], newGPU)}
    IN  IF hit = {} THEN 0 ELSE MaxOf(hit)

\* index of the first record of res similar to newGPU, 0 when there is none
FirstSimilar(res, newGPU) ==
    LET hit == {i \in 1..Len(res) : areGPUsSimilar(res[i], newGPU)}
    IN  IF hit = {} THEN 0 ELSE MinOf(hit)

\* a record with no similar one put in front of the result
MergeOnePrepend(res, newGPU) ==
    LET i == FirstSimilar(res, newGPU)
    IN  IF i # 0 THEN [res EXCEPT ![i] = BackFill(res[i], newGPU)]
        ELSE <<newGPU>> \o res

\* one iteration of the outer loop over new
MergeOne(res, newGPU) ==
    LET i == FirstSimilar(res, newGPU)
    IN  IF i # 0 THEN [res EXCEPT ![i] = BackFill(res[i], newGPU)]
        ELSE Append(res, newGPU)

RECURSIVE MergeFrom(_, _)
MergeFrom(res, newGPUs) ==
    IF Len(newGPUs) = 0 THEN res
    ELSE MergeFrom(MergeOne(res, Head(newGPUs)), Tail(newGPUs))

\* result allocated with make but the copy of existing left out
mergeLinuxGPUInfoNoCopy(ex, newGPUs) == MergeFrom(<<>>, newGPUs)

mergeLinuxGPUInfo(ex, newGPUs) == MergeFrom(ex, newGPUs)

----------------------------------------------------------------------------
(* The environment: what the external commands and the status file give *)

RECURSIVE Concat(_)
Concat(parts) == IF Len(parts) = 0 THEN <<>> ELSE Head(parts) \o Concat(Tail(parts))

\* the output texts put together from at most MaxFragments of the fragments
OutputsOf(fragments) == {Concat(fs) : fs \in SeqsUpTo(fragments, MaxFragments)}

\* Get-CimInstance ... | ConvertTo-Json
CIMFragments ==
    { <<"{","\"","N","a","m","e","\"",":","\"","r","t","x","\"",",","\"","A","d","a","p","t","e","r","R","A","M","\"",":","2","0","9","7","1","5","2","}",",">>,
      <<"{","\"","N","a","m","e","\"",":","\"","v","b","o","x","\"","}",",">>,
      <<"{","\"","N","a","m","e","\"",":","\"","a","r","c","\"",",","\"","D","r","i","v","e","r","V","e","r","s","i","o","n","\"",":","\"","3","1",".","0","\"","}">> }

\* Get-WmiObject ... | Format-List, and wmic ... /format:list
ListFragments ==
    { <<"N","a","m","e",":"," ","r","t","x","\n","\n">>,
      <<"V","i","d","e","o","P","r","o","c","e","s","s","o","r",":"," ","a","r","c","\n","A","d","a","p","t","e","r","R","A","M",":"," ","1","0","7","3","7","4","1","8","2","4","\n">>,
      <<"N","a","m","e",":"," ","B","a","s","i","c","\n">> }

\* lspci
LspciFragments ==
    { <<"V","G","A",":"," ","r","t","x","\n">>,
      <<"3","D",":"," ">>,
      <<"0","0",":","0","2",".","0"," ","D","i","s","p","l","a","y",":"," ","v","b","o","x","\n">> }

\* lshw -C display
LshwFragments ==
    { <<"p","r","o","d","u","c","t",":"," ","r","t","x","\n","s","i","z","e",":"," ","2","0","9","7","1","5","2"," ","b","y","t","e","s","\n","\n">>,
      <<"p","r","o","d","u","c","t",":"," ","a","r","c","\n","v","e","n","d","o","r",":"," ","M","a","t","r","o","x","\n">>,
      <<"p","r","o","d","u","c","t",":"," ","v","b","o","x","\n">> }

\* /proc/driver/nvidia/version
ProcContents == { <<"N","V","I","D","I","A"," ","5","3","5",".","5","4","\n">>, EmptyStr }

\* glxinfo
GLXFragments ==
    { <<"O","p","e","n","G","L"," ","r","e","n","d","e","r","e","r"," ","s","t","r","i","n","g",":"," ","r","t","x","\n">>,
      <<"O","p","e","n","G","L"," ","r","e","n","d","e","r","e","r"," ","s","t","r","i","n","g",":","\n">>,
      <<"O","p","e","n","G","L"," ","r","e","n","d","e","r","e","r"," ","s","t","r","i","n","g",":"," ","v","n","c","\n">> }

\* system_profiler SPDisplaysDataType
MacFragments ==
    { <<"C","h","i","p","s","e","t"," ","M","o","d","e","l",":"," ","A","p","p","l","e"," ","M","1","\n">>,
      <<"V","R","A","M",":"," ","8"," ","G","B","\n">>,
      <<"\n">>,
      <<"C","h","i","p","s","e","t"," ","M","o","d","e","l",":"," ","V","M","w","a","r","e"," ","S","V","G","A"," ","I","I","\n">> }

\* the errors of runCommandWithTimeout: tool missing, non-zero exit, timeout
CommandErrors == {"executable file not found", "exit status 1", "signal: killed"}

\* what one invocation returns: (out, err), err "nil" on success
Outcomes(texts) ==
    {[out |-> t, err |-> "nil"] : t \in texts}
        \cup {[out |-> EmptyStr, err |-> e] : e \in CommandErrors}

OperatingSystems == {"windows", "linux", "darwin", "freebsd"}

----------------------------------------------------------------------------
(* config.ProcessingConfig *)

ProcessingConfig(acceleration, codec, quality, preset, inputPath, outputPath) ==
    [Acceleration |-> acceleration, Codec |-> codec, Quality |-> quality, Preset |-> preset,
     InputPath |-> inputPath, OutputPath |-> outputPath]

\* the zero value, before configureProcessing has run
NoConfig == ProcessingConfig("", "", 0, "", "", "")

NewDefault == ProcessingConfig("", "", 23, "", "", "output.mp4")

SetSoftwareEncoding(c) ==
    [c EXCEPT !.Acceleration = "none", !.Codec = "libx264", !.Preset = "medium"]

SetHardwareEncoding(c, acceleration, codec, preset) ==
    [c EXCEPT !.Acceleration = acceleration, !.Codec = codec, !.Preset = preset]

----------------------------------------------------------------------------
(* DetectGPUs *)

\* a sentinel that keeps an empty model
SentinelNoModel(error) == GPUInfo(Unknown, EmptyStr, EmptyStr, EmptyStr, EmptyStr, EmptyStr, error)

Sentinel(error) == GPUInfo(Unknown, Unknown, EmptyStr, EmptyStr, EmptyStr, EmptyStr, error)

\* one entry of the log of probes run: the command, its error, the records parsed
Call(cmd, err, recs) == [cmd |-> cmd, err |-> err, recs |-> recs]

Init ==
    /\ goos \in OperatingSystems
    /\ pc = "DetectGPUs"
    /\ gpus = <<>>
    /\ calls = <<>>
    /\ ret = <<>>
    /\ reterr = "none"
    /\ existing = <<>> /\ new = <<>> /\ result = <<>> /\ mpc = "idle"
    /\ fn = "none" /\ arg = <<>> /\ out = <<>>
    /\ cfg = NoConfig /\ attempts = <<>> /\ perr = "none" /\ ppc = "idle"

Return(records) ==
    /\ ret' = records
    /\ reterr' = "nil"
    /\ pc' = "done"

\* the switch on runtime.GOOS
DetectGPUs ==
    /\ pc = "DetectGPUs"
    /\ IF goos = "windows" THEN pc' = "PowerShell CIM" /\ UNCHANGED <<ret, reterr>>
       ELSE IF goos = "linux" THEN pc' = "lspci -v" /\ UNCHANGED <<ret, reterr>>
       ELSE IF goos = "darwin" THEN pc' = "system_profiler" /\ UNCHANGED <<ret, reterr>>
       ELSE Return(<<Sentinel("Unsupported operating system")>>)
    /\ UNCHANGED <<goos, gpus, calls, mergeVars, callVars, procVars>>

(* detectWindowsGPUs *)

methods == <<"PowerShell CIM", "PowerShell WMI", "WMIC">>

\* the length test left out
AcceptsAnySuccess(recs, err) == err = "nil"

\* the test of the loop over methods: err == nil && len(gpus) > 0
Accepts(recs, err) == err = "nil" /\ Len(recs) > 0

\* every way the CIM query can run: it fails, or its output is parsed
CIMRuns ==
    {[err |-> o.err, recs |-> IF o.err = "nil" THEN parseWindowsGPUOutput(o.out) ELSE <<>>] :
        o \in Outcomes(OutputsOf(CIMFragments))}

\* every way the WMI query or wmic can run
ListRuns ==
    {[err |-> o.err, recs |-> IF o.err = "nil" THEN parseWindowsGPUOutput(o.out) ELSE <<>>] :
        o \in Outcomes(OutputsOf(ListFragments))}

\* one iteration of the loop over methods, and the return after the last one
TryWindowsMethod(name, run) ==
    LET i == CHOOSE k \in DOMAIN methods : methods[k] = name
    IN  /\ pc = methods[i]
        /\ calls' = Append(calls, Call(methods[i], run.err, run.recs))
        /\ IF Accepts(run.recs, run.err) THEN Return(run.recs)
           ELSE IF i < Len(methods) THEN pc' = methods[i + 1] /\ UNCHANGED <<ret, reterr>>
           ELSE Return(<<Sentinel("Failed to detect GPU using all Windows methods")>>)
        /\ UNCHANGED <<goos, gpus, mergeVars, callVars, procVars>>

detectWindowsGPUsPowerShellCIM ==
    /\ pc = "PowerShell CIM"
    /\ \E run \in CIMRuns : TryWindowsMethod("PowerShell CIM", run)

detectWindowsGPUsPowerShellWMI ==
    /\ pc = "PowerShell WMI"
    /\ \E run \in ListRuns : TryWindowsMethod("PowerShell WMI", run)

detectWindowsGPUsWMIC ==
    /\ pc = "WMIC"
    /\ \E run \in ListRuns : TryWindowsMethod("WMIC", run)

(* detectLinuxGPUs *)

\* the first-success policy of Windows applied to Linux
linuxProbesFirstSuccess(found) ==
    IF found THEN <<"lspci -v", "lspci">>
    ELSE <<"lspci -v", "lspci", "lshw", "nvidia proc", "glxinfo">>

\* the probes detectLinuxGPUs goes through, in order (the simple lspci only
\* when the preferred one failed), whether or not records were found so far
linuxProbes(found) == <<"lspci -v", "lspci", "lshw", "nvidia proc", "glxinfo">>

\* the simple lspci invocation left out
ProbeAfterSkipsSimple(i, found) ==
    IF i = 1 THEN "lshw"
    ELSE IF i < Len(linuxProbes(found)) THEN linuxProbes(found)[i + 1] ELSE "return"

\* the probe after the one at index i, "return" after the last
ProbeAfter(i, found) ==
    IF i < Len(linuxProbes(found)) THEN linuxProbes(found)[i + 1] ELSE "return"

\* the sentinel added to whatever was collected
LinuxResultAddsSentinel(collected) ==
    Append(collected, Sentinel("Could not detect GPU. Consider installing lspci, lshw, or mesa-utils"))

\* the end of detectLinuxGPUs: the sentinel when nothing was collected
LinuxResult(collected) ==
    IF Len(collected) = 0
    THEN <<Sentinel("Could not detect GPU. Consider installing lspci, lshw, or mesa-utils")>>
    ELSE collected

\* go on with the next probe, or return after the last one
LinuxContinue(next, collected) ==
    /\ gpus' = collected
    /\ IF next = "return" THEN Return(LinuxResult(collected))
       ELSE pc' = next /\ UNCHANGED <<ret, reterr>>

\* every way one lspci invocation can run
LspciRuns ==
    {[err |-> o.err, recs |-> IF o.err = "nil" THEN parseLinuxLspciOutput(o.out) ELSE <<>>] :
        o \in Outcomes(OutputsOf(LspciFragments))}

LshwRuns ==
    {[err |-> o.err, recs |-> IF o.err = "nil" THEN parseLinuxLshwOutput(o.out) ELSE <<>>] :
        o \in Outcomes(OutputsOf(LshwFragments))}

GLXRuns ==
    {[err |-> o.err, recs |-> IF o.err = "nil" THEN parseLinuxGLXOutput(o.out) ELSE <<>>] :
        o \in Outcomes(OutputsOf(GLXFragments))}

MacRuns ==
    {[err |-> o.err, recs |-> IF o.err = "nil" THEN parseMacGPUOutput(o.out) ELSE <<>>] :
        o \in Outcomes(OutputsOf(MacFragments))}

\* tryLinuxLspci, preferred invocation
tryLinuxLspciPreferred ==
    /\ pc = "lspci -v"
    /\ \E run \in LspciRuns :
          /\ calls' = Append(calls, Call("lspci -v", run.err, run.recs))
          /\ IF run.err # "nil" THEN LinuxContinue(ProbeAfter(1, FALSE), gpus)
             ELSE LinuxContinue(ProbeAfter(2, Len(run.recs) > 0),
                                IF Len(run.recs) > 0 THEN gpus \o run.recs ELSE gpus)
    /\ UNCHANGED <<goos, mergeVars, callVars, procVars>>

\* tryLinuxLspci, fallback to the simple invocation
tryLinuxLspciSimple ==
    /\ pc = "lspci"
    /\ \E run \in LspciRuns :
          /\ calls' = Append(calls, Call("lspci", run.err, run.recs))
          /\ LinuxContinue(ProbeAfter(2, Len(run.recs) > 0),
                           IF Len(run.recs) > 0 THEN gpus \o run.recs ELSE gpus)
    /\ UNCHANGED <<goos, mergeVars, callVars, procVars>>

tryLinuxLshw ==
    /\ pc = "lshw"
    /\ \E run \in LshwRuns :
          /\ calls' = Append(calls, Call("lshw", run.err, run.recs))
          /\ LinuxContinue(ProbeAfter(3, Len(gpus) > 0 \/ Len(run.recs) > 0),
                           IF Len(run.recs) > 0 THEN mergeLinuxGPUInfo(gpus, run.recs) ELSE gpus)
    /\ UNCHANGED <<goos, mergeVars, callVars, procVars>>

\* what os.ReadFile of the status file gives
ProcReads ==
    {[out |-> d, err |-> "nil"] : d \in ProcContents}
        \cup {[out |-> EmptyStr, err |-> "no such file"]}

\* the error of the read ignored
NvidiaProcGPUIgnoresError(read) ==
    GPUInfo(Nvidia, <<"N","V","I","D","I","A"," ","G","P","U">>, EmptyStr, extractNvidiaVersionFromProc(read.out),
            EmptyStr, read.out, "")

\* the record tryLinuxNvidiaProc returns
NvidiaProcGPU(read) ==
    IF read.err = "nil"
    THEN GPUInfo(Nvidia, <<"N","V","I","D","I","A"," ","G","P","U">>, EmptyStr, extractNvidiaVersionFromProc(read.out),
                 EmptyStr, read.out, "")
    ELSE [NoGPU EXCEPT !.Vendor = Unknown]

ProcRuns == {[err |-> read.err, gpu |-> NvidiaProcGPU(read)] : read \in ProcReads}

tryLinuxNvidiaProc ==
    /\ pc = "nvidia proc"
    /\ \E run \in ProcRuns :
          LET merged == run.gpu.Vendor # Unknown
          IN  /\ calls' = Append(calls, Call("nvidia proc", run.err,
                                             IF merged THEN <<run.gpu>> ELSE <<>>))
              /\ LinuxContinue(ProbeAfter(4, Len(gpus) > 0 \/ merged),
                               IF merged THEN mergeLinuxGPUInfo(gpus, <<run.gpu>>) ELSE gpus)
    /\ UNCHANGED <<goos, mergeVars, callVars, procVars>>

tryLinuxGLX ==
    /\ pc = "glxinfo"
    /\ \E run \in GLXRuns :
          /\ calls' = Append(calls, Call("glxinfo", run.err, run.recs))
          /\ LinuxContinue(ProbeAfter(5, Len(gpus) > 0 \/ Len(run.recs) > 0),
                           IF Len(run.recs) > 0 THEN mergeLinuxGPUInfo(gpus, run.recs) ELSE gpus)
    /\ UNCHANGED <<goos, mergeVars, callVars, procVars>>

(* detectMacGPUs *)

detectMacGPUs ==
    /\ pc = "system_profiler"
    /\ \E run \in MacRuns :
          /\ calls' = Append(calls, Call("system_profiler", run.err, run.recs))
          /\ IF run.err # "nil"
             THEN Return(<<Sentinel("Failed to run system_profiler")>>)
             ELSE Return(run.recs)
    /\ UNCHANGED <<goos, gpus, mergeVars, callVars, procVars>>

Next ==
    \/ DetectGPUs
    \/ detectWindowsGPUsPowerShellCIM
    \/ detectWindowsGPUsPowerShellWMI
    \/ detectWindowsGPUsWMIC
    \/ tryLinuxLspciPreferred
    \/ tryLinuxLspciSimple
    \/ tryLinuxLshw
    \/ tryLinuxNvidiaProc
    \/ tryLinuxGLX
    \/ detectMacGPUs

Spec == Init /\ [][Next]_vars

----------------------------------------------------------------------------
(* Claims on DetectGPUs *)

Returned == pc = "done"

RetIndices == 1..Len(ret)

KnownVendors == {Nvidia, Amd, Intel, Apple, Unknown}

\* a probe that failed or parsed no record
CameUpEmpty(call) == call.err # "nil" \/ Len(call.recs) = 0

IsSentinel(gpu) == gpu.Vendor = Unknown /\ gpu.Model = Unknown /\ gpu.Error # ""

\* the model contains a block-list term, case-insensitively
BlockListed(model) ==
    \E t \in {<<"b","a","s","i","c">>, <<"g","e","n","e","r","i","c">>, <<"s","t","a","n","d","a","r","d">>, <<"v","n","c">>, <<"v","i","r","t","u","a","l">>, <<"v","m","w","a","r","e">>, <<"v","b","o","x">>} :
        Contains(ToLower(model), t)

\* C1: on every platform and for every probe outcome DetectGPUs returns at
\* least one record, and when no probe parsed a record the result is the one
\* sentinel: vendor and model "unknown", error non-empty.
C1_NeverEmpty ==
    Returned =>
        /\ Len(ret) >= 1
        /\ (\A i \in 1..Len(calls) : CameUpEmpty(calls[i])) =>
              (Len(ret) = 1 /\ IsSentinel(ret[1]))

\* C2: no record DetectGPUs returns has an empty model.
C2_NoEmptyModel ==
    Returned => \A i \in RetIndices : TrimSpace(ret[i].Model) # EmptyStr

\* C3: no non-sentinel record DetectGPUs returns, on any platform, has a model
\* that contains a block-list term.
C3_NoGenericModel ==
    Returned => \A i \in RetIndices : ret[i].Error = "" => ~BlockListed(ret[i].Model)

C5_WindowsFirstSuccess ==
    goos = "windows" =>
        LET n == Len(calls)
            order == <<"PowerShell CIM", "PowerShell WMI", "WMIC">>
        IN  /\ n <= 3
            /\ \A i \in 1..n : calls[i].cmd = order[i]
            /\ \A i \in 1..(n - 1) : CameUpEmpty(calls[i])
            /\ (~Returned /\ n > 0) => CameUpEmpty(calls[n])
            /\ Returned =>
                  /\ n >= 1
                  /\ IF CameUpEmpty(calls[n])
                     THEN n = 3 /\ Len(ret) = 1 /\ IsSentinel(ret[1])
                     ELSE ret = calls[n].recs /\ \A i \in RetIndices : ret[i].Error = ""
                  /\ reterr = "nil"

\* C5 witness: the second strategy gave the result after the first came up empty
C5_Witness ==
    /\ goos = "windows" /\ Returned /\ Len(calls) = 2
    /\ calls[1].err = "nil" /\ Len(calls[1].recs) = 0
    /\ Len(ret) >= 1 /\ ret = calls[2].recs

\* C6: on Linux every run goes through lspci, lshw, the status file and
\* glxinfo in that order whatever the earlier probes gave, and every record a
\* probe parsed is in the returned set, as itself or as the record it was
\* merged into.
C6_LinuxAllProbes ==
    goos = "linux" =>
        LET cmds == [i \in 1..Len(calls) |-> calls[i].cmd]
            whole == IF Len(calls) > 0 /\ calls[1].err # "nil"
                     THEN <<"lspci -v", "lspci", "lshw", "nvidia proc", "glxinfo">>
                     ELSE <<"lspci -v", "lshw", "nvidia proc", "glxinfo">>
        IN  /\ Len(cmds) <= Len(whole)
            /\ cmds = SubSeq(whole, 1, Len(cmds))
            /\ Returned <=> (Len(calls) > 0 /\ cmds = whole)
            /\ Returned =>
                  \A c \in 1..Len(calls) : \A k \in 1..Len(calls[c].recs) :
                      \E i \in RetIndices :
                          /\ ret[i].Error = ""
                          /\ ret[i].Vendor = calls[c].recs[k].Vendor
                          /\ \/ Contains(ret[i].Model, calls[c].recs[k].Model)
                             \/ Contains(calls[c].recs[k].Model, ret[i].Model)

\* C6 witness: lspci found a record, lshw failed, and glxinfo still ran and
\* parsed a record
C6_Witness ==
    /\ goos = "linux" /\ Returned /\ Len(calls) = 4
    /\ Len(calls[1].recs) > 0
    /\ calls[2].err # "nil"
    /\ calls[4].cmd = "glxinfo" /\ Len(calls[4].recs) > 0

----------------------------------------------------------------------------
(* mergeLinuxGPUInfo on its own: Init draws existing and new, MergeCall      *)
(* applies the function.                                                    *)

\* the spec's back-fill example: existing record and new record
ExampleExisting == GPUInfo(Nvidia, <<"G","e","F","o","r","c","e"," ","R","T","X"," ","3","0","8","0">>, EmptyStr, EmptyStr, EmptyStr, EmptyStr, "")
ExampleNew == GPUInfo(Nvidia, <<"R","T","X"," ","3","0","8","0">>, <<"1","0",".","0"," ","G","B">>, EmptyStr, EmptyStr, EmptyStr, "")

MergeRecords ==
    { ExampleExisting,
      ExampleNew,
      GPUInfo(Nvidia, <<"R","T","X"," ","3","0","8","0">>, <<"8"," ","G","B">>, <<"5","3","5",".","1">>, <<"0","1",":","0","0",".","0">>, <<"l","s","p","c","i">>, ""),
      GPUInfo(Amd, <<"R","T","X"," ","3","0","8","0">>, EmptyStr, <<"2","4",".","1">>, EmptyStr, <<"l","s","h","w">>, ""),
      GPUInfo(Nvidia, EmptyStr, EmptyStr, EmptyStr, EmptyStr, <<"g","l","x">>, ""),
      GPUInfo(Nvidia, <<"N","V","I","D","I","A"," ","G","P","U">>, EmptyStr, <<"5","5","0",".","2">>, EmptyStr, <<"p","r","o","c">>, "") }

MergeInit ==
    /\ existing \in SeqsUpTo(MergeRecords, MaxMergeLen)
    /\ new \in SeqsUpTo(MergeRecords, MaxMergeLen)
    /\ result = <<>>
    /\ mpc = "call"
    /\ goos = "linux" /\ pc = "idle" /\ gpus = <<>> /\ calls = <<>> /\ ret = <<>>
    /\ reterr = "none"
    /\ fn = "none" /\ arg = <<>> /\ out = <<>>
    /\ cfg = NoConfig /\ attempts = <<>> /\ perr = "none" /\ ppc = "idle"

\* result := mergeLinuxGPUInfo(existing, new); the arguments are left as they were
MergeCall ==
    /\ mpc = "call"
    /\ result' = mergeLinuxGPUInfo(existing, new)
    /\ mpc' = "done"
    /\ UNCHANGED <<existing, new, runVars, callVars, procVars>>

MergeNext == MergeCall

SpecMerge == MergeInit /\ [][MergeNext]_vars

----------------------------------------------------------------------------
(* Claims on mergeLinuxGPUInfo *)

StringFields == {"Vendor", "Model", "Memory", "DriverVersion", "PCIAddress", "RawOutput"}

BackFilledFields == {"Memory", "DriverVersion", "PCIAddress"}

\* vendor equality plus model substring overlap, as the merge policy words it
Matches(a, b) ==
    /\ a.Vendor = b.Vendor
    /\ \/ \E i \in 0..(Len(a.Model) - Len(b.Model)) : SubSeq(a.Model, i + 1, i + Len(b.Model)) = b.Model
       \/ \E i \in 0..(Len(b.Model) - Len(a.Model)) : SubSeq(b.Model, i + 1, i + Len(a.Model)) = a.Model

\* C7: mergeLinuxGPUInfo never overwrites a non-empty field: every record of
\* existing is still at its index in the result, and each of its string fields
\* that was non-empty has the value it had, whatever the new records are.
C7_NeverOverwrites ==
    mpc = "done" =>
        /\ Len(result) >= Len(existing)
        /\ \A i \in 1..Len(existing) : \A f \in StringFields :
              existing[i][f] # EmptyStr => result[i][f] = existing[i][f]

\* C7 witness: a merge where a new record matches an existing record that
\* already has a different, non-empty memory
C7_Witness ==
    /\ mpc = "done"
    /\ \E i \in 1..Len(existing) : \E j \in 1..Len(new) :
          /\ Matches(existing[i], new[j])
          /\ existing[i].Memory # EmptyStr /\ new[j].Memory # EmptyStr
          /\ existing[i].Memory # new[j].Memory

\* the first record of the result that a new record matches
MatchedIndex(n) == MinOf({i \in 1..Len(result) : Matches(result[i], n)})

\* C8 as stated: on a match every field empty in the existing record and
\* non-empty in the new one is back-filled, model and rawOutput included.
C8_BackFillsEveryField ==
    (mpc = "done" /\ Len(new) = 1) =>
        \A i \in 1..Len(existing) :
            (Matches(existing[i], new[1]) /\ \A k \in 1..(i - 1) : ~Matches(existing[k], new[1])) =>
                \A f \in StringFields :
                    (existing[i][f] = EmptyStr /\ new[1][f] # EmptyStr) => result[i][f] = new[1][f]

\* C8 amended: on a match memory, driverVersion and pciAddress are back-filled
\* when empty in the matched record (the first matching record of the result,
\* from the first matching new record that has the field), and vendor, model,
\* rawOutput and error of an existing record are left as they were.
C8_BackFillsInfoFields ==
    mpc = "done" =>
        /\ \A j \in 1..Len(new) :
              /\ \E i \in 1..Len(result) : Matches(result[i], new[j])
              /\ \A f \in BackFilledFields :
                    new[j][f] # EmptyStr =>
                        LET i == MatchedIndex(new[j])
                            firstj == MinOf({k \in 1..Len(new) :
                                          MatchedIndex(new[k]) = i /\ new[k][f] # EmptyStr})
                        IN  /\ result[i][f] # EmptyStr
                            /\ (i <= Len(existing) /\ existing[i][f] = EmptyStr)
                                  => result[i][f] = new[firstj][f]
        /\ \A i \in 1..Len(existing) : \A f \in {"Vendor", "Model", "RawOutput", "Error"} :
              result[i][f] = existing[i][f]

\* C8 witness: a new record matches an existing record whose memory, model or
\* rawOutput is empty while the new record has it
C8_Witness ==
    /\ mpc = "done" /\ Len(new) = 1 /\ Len(existing) = 1
    /\ Matches(existing[1], new[1])
    /\ existing[1].Memory = EmptyStr /\ new[1].Memory # EmptyStr
    /\ existing[1].RawOutput = EmptyStr /\ new[1].RawOutput # EmptyStr
    /\ result[1].Memory = new[1].Memory

\* C9: merging one new record: when a record of the set matches it, the
\* result has as many records as the set and every model is kept (the example
\* gives one record, model "GeForce RTX 3080", memory "10.0 GB"); otherwise
\* the result is the set with the new record, unchanged, as its last element.
C9_MergeOne ==
    (mpc = "done" /\ Len(new) = 1) =>
        /\ IF \E i \in 1..Len(existing) : Matches(existing[i], new[1])
           THEN /\ Len(result) = Len(existing)
                /\ \A i \in 1..Len(existing) : result[i].Model = existing[i].Model
           ELSE result = Append(existing, new[1])
        /\ (existing = <<ExampleExisting>> /\ new = <<ExampleNew>>) =>
              result = <<[ExampleExisting EXCEPT !.Memory = ExampleNew.Memory]>>

\* C9 witness: the example merge has run
C9_Witness ==
    /\ mpc = "done" /\ existing = <<ExampleExisting>> /\ new = <<ExampleNew>>
    /\ Len(result) = 1 /\ result[1].Memory = ExampleNew.Memory

\* C10: merging an empty new sequence into a non-empty set returns the set:
\* same length, same records, same order, same field values.
C10_EmptyMergeIsIdentity ==
    (mpc = "done" /\ new = <<>> /\ existing # <<>>) => result = existing

\* C10 witness: an empty merge into a set of two records has run
C10_Witness ==
    mpc = "done" /\ new = <<>> /\ Len(existing) = 2 /\ Len(result) = 2

----------------------------------------------------------------------------
(* Processor.Run from configureProcessing on: Init draws the host and the  *)
(* detection result.                                                       *)

getAccelerationMethod(gpu, os) ==
    IF gpu.Vendor = Nvidia THEN "cuda"
    ELSE IF gpu.Vendor = Intel THEN (IF os = "windows" THEN "qsv" ELSE "vaapi")
    ELSE IF gpu.Vendor = Amd THEN (IF os = "windows" THEN "d3d11va" ELSE "vaapi")
    ELSE IF gpu.Vendor = Apple THEN "videotoolbox"
    ELSE "none"

getCodec(acceleration) ==
    CASE acceleration = "cuda" -> "h264_nvenc"
      [] acceleration = "qsv" -> "h264_qsv"
      [] acceleration = "vaapi" -> "h264_vaapi"
      [] acceleration = "videotoolbox" -> "h264_videotoolbox"
      [] acceleration = "d3d11va" -> "h264_amf"
      [] OTHER -> "libx264"

getPreset(acceleration) ==
    CASE acceleration = "cuda" -> "medium"
      [] acceleration = "qsv" -> "medium"
      [] acceleration = "vaapi" -> "ultrafast"
      [] acceleration = "videotoolbox" -> "balanced"
      [] acceleration = "d3d11va" -> "balanced"
      [] OTHER -> "medium"

\* the last record taken as the primary one
lastGPU(records) == records[Len(records)]

\* primaryGPU := gpus[0]
primaryGPU(records) == records[1]

\* the configuration configureProcessing returns
ConfigFor(records, os) ==
    IF Len(records) = 0 \/ records[1].Vendor = Unknown
    THEN SetSoftwareEncoding(NewDefault)
    ELSE LET acceleration == getAccelerationMethod(primaryGPU(records), os)
         IN  SetHardwareEncoding(NewDefault, acceleration, getCodec(acceleration),
                                 getPreset(acceleration))

\* the minimal method tried first
getFallbackMethodsMinimalFirst ==
    << "Basic software encoding (minimal options)",
       "Software encoding (libx264) with auto-detected output format",
       "Software encoding (libx264) with MP4 format fallback" >>

\* the descriptions of the methods getFallbackMethods returns, in order
getFallbackMethods ==
    << "Software encoding (libx264) with auto-detected output format",
       "Software encoding (libx264) with MP4 format fallback",
       "Basic software encoding (minimal options)" >>

\* vendors of the first and later records: the four known ones, "unknown", a
\* vendor as lshw reports it, and none
ProcVendors == {Nvidia, Amd, Intel, Apple, Unknown, <<"m","a","t","r","o","x">>, EmptyStr}

\* detection results: device records and the sentinel
ProcRecords ==
    {GPUInfo(v, <<"g","p","u">>, EmptyStr, EmptyStr, EmptyStr, EmptyStr, "") : v \in ProcVendors}
        \cup {Sentinel("Unsupported operating system")}

\* what cmd.Run of ffmpeg returns
FFmpegErrors == {"nil", "exit status 1"}

\* one entry of the log of ffmpeg runs
Attempt(method, err) == [method |-> method, err |-> err]

ProcInit ==
    /\ goos \in OperatingSystems
    /\ ret \in SeqsUpTo(ProcRecords, MaxGPUs)
    /\ reterr = "nil"
    /\ pc = "done" /\ gpus = <<>> /\ calls = <<>>
    /\ cfg = NoConfig /\ attempts = <<>> /\ perr = "none"
    /\ ppc = "configureProcessing"
    /\ existing = <<>> /\ new = <<>> /\ result = <<>> /\ mpc = "idle"
    /\ fn = "none" /\ arg = <<>> /\ out = <<>>

configureProcessing ==
    /\ ppc = "configureProcessing"
    /\ cfg' = ConfigFor(ret, goos)
    /\ ppc' = "getUserInput"
    /\ UNCHANGED <<attempts, perr, runVars, mergeVars, callVars>>

\* the paths read from the terminal; Run returns when no input path is given
getUserInput ==
    /\ ppc = "getUserInput"
    /\ \E input \in {"", "in.mp4"}, output \in {"", "out.mkv"} :
          IF input = ""
          THEN /\ perr' = "input failed" /\ ppc' = "done" /\ cfg' = cfg
          ELSE /\ cfg' = [cfg EXCEPT !.InputPath = input,
                                     !.OutputPath = IF output # "" THEN output ELSE @]
               /\ ppc' = "processVideo" /\ perr' = perr
    /\ UNCHANGED <<attempts, runVars, mergeVars, callVars>>

\* processVideo up to the end of the primary command
processVideo ==
    /\ ppc = "processVideo"
    /\ \E err \in FFmpegErrors :
          /\ attempts' = Append(attempts, Attempt("primary", err))
          /\ IF err = "nil" THEN perr' = "nil" /\ ppc' = "done"
             ELSE perr' = perr /\ ppc' = "TryFallbacks"
    /\ UNCHANGED <<cfg, runVars, mergeVars, callVars>>

\* one iteration of the loop of TryFallbacks; after the last one processVideo
\* wraps the error
TryFallbacks ==
    /\ ppc = "TryFallbacks"
    /\ \E err \in FFmpegErrors :
          LET i == Len(attempts)
          IN  /\ attempts' = Append(attempts, Attempt(getFallbackMethods[i], err))
              /\ IF err = "nil" THEN perr' = "nil" /\ ppc' = "done"
                 ELSE IF i < Len(getFallbackMethods) THEN perr' = perr /\ ppc' = ppc
                 ELSE perr' = "all encoding methods failed" /\ ppc' = "done"
    /\ UNCHANGED <<cfg, runVars, mergeVars, callVars>>

ProcNext ==
    \/ configureProcessing
    \/ getUserInput
    \/ processVideo
    \/ TryFallbacks

SpecProcessor == ProcInit /\ [][ProcNext]_vars

----------------------------------------------------------------------------
(* Further claims on DetectGPUs *)

InfoFields == {"Memory", "DriverVersion", "PCIAddress"}

\* after is before, possibly back-filled: same vendor, model, rawOutput and
\* error, and every info field either as it was or filled where it was empty
BackFilledFrom(before, after) ==
    /\ \A f \in {"Vendor", "Model", "RawOutput", "Error"} : after[f] = before[f]
    /\ \A f \in InfoFields : after[f] = before[f] \/ before[f] = EmptyStr

\* the records of tail are records of emitted, possibly back-filled, in the
\* order emitted has them
InOrderOf(tail, emitted) ==
    \E at \in [1..Len(tail) -> 1..Len(emitted)] :
        /\ \A k \in 1..Len(tail) : BackFilledFrom(emitted[at[k]], tail[k])
        /\ \A k \in 1..(Len(tail) - 1) : at[k] < at[k + 1]

\* C11: on Linux, every probe step leaves each record collected so far at its
\* index (possibly back-filled), puts what it adds after them, in the order
\* the probe emitted it; the returned sequence is the collected one.
C11_ProbeOrder ==
    [][goos = "linux" =>
          LET emitted == IF calls' # calls THEN calls'[Len(calls')].recs ELSE <<>>
          IN  /\ Len(gpus') >= Len(gpus)
              /\ \A i \in 1..Len(gpus) : BackFilledFrom(gpus[i], gpus'[i])
              /\ InOrderOf(SubSeq(gpus', Len(gpus) + 1, Len(gpus')), emitted)
              /\ (pc' = "done" /\ Len(gpus') > 0) => ret' = gpus']_vars

\* C11 witness: lspci emitted two records, lshw then back-filled the first of
\* them in place and added a third record after them
C11_Witness ==
    /\ goos = "linux" /\ Len(calls) = 2 /\ calls[2].cmd = "lshw"
    /\ Len(calls[1].recs) = 2 /\ Len(calls[2].recs) = 2 /\ Len(gpus) = 3
    /\ calls[1].recs[1].Memory = EmptyStr /\ gpus[1].Memory # EmptyStr
    /\ gpus[1].Model = calls[1].recs[1].Model
    /\ gpus[2] = calls[1].recs[2]
    /\ gpus[3] = calls[2].recs[2]

\* a record that carries nothing but the failure
PureSentinel(gpu) ==
    /\ gpu.Vendor = Unknown /\ gpu.Model = Unknown
    /\ gpu.Memory = EmptyStr /\ gpu.DriverVersion = EmptyStr
    /\ gpu.PCIAddress = EmptyStr /\ gpu.RawOutput = EmptyStr

\* C12: every returned record with a non-empty error has vendor and model
\* "unknown" and every other field empty, and such a record is what is returned
\* on an unsupported platform, when all Windows methods came up empty, when
\* Linux collected nothing and when the macOS command failed.
C12_SentinelIsPure ==
    Returned =>
        /\ \A i \in RetIndices : ret[i].Error # "" => PureSentinel(ret[i])
        /\ LET failed ==
                   \/ goos = "freebsd"
                   \/ goos = "windows" /\ \A c \in 1..Len(calls) : CameUpEmpty(calls[c])
                   \/ goos = "linux" /\ Len(gpus) = 0
                   \/ goos = "darwin" /\ calls[1].err # "nil"
           IN  failed => (Len(ret) = 1 /\ ret[1].Error # "" /\ PureSentinel(ret[1]))

\* C12 witness: on Linux every command failed and the status file was absent
C12_Witness ==
    /\ goos = "linux" /\ Returned /\ Len(calls) = 5
    /\ \A c \in 1..Len(calls) : calls[c].err # "nil"
    /\ Len(ret) = 1 /\ ret[1].Error # ""

\* C13: whatever the commands do (tool missing, non-zero exit, timeout),
\* DetectGPUs returns a nil error, and a Linux probe that failed leaves the
\* collected records as they were.
C13_FailuresStayInside ==
    /\ [](Returned => reterr = "nil")
    /\ [][(goos = "linux" /\ calls' # calls /\ calls'[Len(calls')].err # "nil")
              => gpus' = gpus]_vars

\* C13 witness: lspci found a record, lshw timed out, glxinfo was missing, the
\* status file could not be read, and the record of lspci was returned
C13_Witness ==
    /\ goos = "linux" /\ Returned /\ reterr = "nil" /\ Len(calls) = 4
    /\ Len(calls[1].recs) = 1
    /\ calls[2].err = "signal: killed"
    /\ calls[3].err = "no such file"
    /\ calls[4].err = "executable file not found"
    /\ ret = calls[1].recs

----------------------------------------------------------------------------
(* The helper functions on their own: Init draws the function and its      *)
(* argument, the Call action of the function applies it.                   *)

\* words of model strings
VendorWords ==
    { <<"A","M","D"," ","R","a","d","e","o","n">>, <<" ","w","i","t","h"," ">>, <<"I","n","t","e","l"," ","I","r","i","s"," ","f","a","l","l","b","a","c","k">>, <<"G","e","F","o","r","c","e"," ","R","T","X">>,
      <<"A","p","p","l","e"," ","M","1">>, <<"M","a","t","r","o","x"," ","G","2","0","0">> }

VendorInputs == {Concat(ws) : ws \in SeqsUpTo(VendorWords, MaxWords)}

\* byte counts around the two thresholds and between tenths and units
MemoryCounts ==
    { 0, 512, 1048575, 1048576, 1572864, 1572865, 2097152, 2621440, 3670016,
      1073217536, 1073741823, 1073741824, 1127428915, 1127428916, 1181116006,
      1610612736, 2093796556, 2147483647 }

\* memory strings: a byte count, a byte count with a unit, and texts without a number
MemoryInputs ==
    {Itoa(n) : n \in MemoryCounts}
        \cup {Itoa(n) \o <<" ","b","y","t","e","s">> : n \in MemoryCounts}
        \cup {EmptyStr, <<"N","/","A">>, <<"u","n","k","n","o","w","n">>, <<"8"," ","G","B">>}

\* pieces of key/value texts: model lines (one generic, one with no line end),
\* another key, an empty line and a line of blanks
BlockPieces ==
    { <<"N","a","m","e",":"," ","r","t","x","\n">>, <<"N","a","m","e",":"," ","a","r","c">>, <<"N","a","m","e",":"," ","B","a","s","i","c","\n">>, <<"D","r","i","v","e","r","V","e","r","s","i","o","n",":"," ","3","1",".","0","\n">>,
      <<"\n">>, <<" ","\n">> }

BlockInputs == {Concat(ps) : ps \in SeqsUpTo(BlockPieces, MaxPieces)}

CallInit ==
    /\ \/ fn = "determineVendorFromOutput" /\ arg \in VendorInputs
       \/ fn = "formatMemory" /\ arg \in MemoryInputs
       \/ fn = "splitIntoBlocks" /\ arg \in BlockInputs
       \/ fn = "parseWindowsGPUOutput" /\ arg \in BlockInputs
    /\ out = <<>>
    /\ goos = "linux" /\ pc = "idle" /\ gpus = <<>> /\ calls = <<>> /\ ret = <<>>
    /\ reterr = "none"
    /\ existing = <<>> /\ new = <<>> /\ result = <<>> /\ mpc = "idle"
    /\ cfg = NoConfig /\ attempts = <<>> /\ perr = "none" /\ ppc = "idle"

\* the call returns: out is the value, fn records that it did
Returns(value) ==
    /\ out' = value
    /\ fn' = fn \o " returned"
    /\ UNCHANGED <<arg, runVars, mergeVars, procVars>>

CallDetermineVendorFromOutput ==
    /\ fn = "determineVendorFromOutput"
    /\ Returns(determineVendorFromOutput(arg))

CallFormatMemory ==
    /\ fn = "formatMemory"
    /\ Returns(formatMemory(arg))

CallSplitIntoBlocks ==
    /\ fn = "splitIntoBlocks"
    /\ Returns(splitIntoBlocks(arg))

CallParseWindowsGPUOutput ==
    /\ fn = "parseWindowsGPUOutput"
    /\ Returns(parseWindowsGPUOutput(arg))

CallNext ==
    \/ CallDetermineVendorFromOutput
    \/ CallFormatMemory
    \/ CallSplitIntoBlocks
    \/ CallParseWindowsGPUOutput

SpecCalls == CallInit /\ [][CallNext]_vars

----------------------------------------------------------------------------
(* Claims on the helper functions *)

\* sub occurs in s, letters compared without case
OccursNoCase(s, sub) ==
    \E i \in 0..(Len(s) - Len(sub)) :
        \A k \in 1..Len(sub) : ToLowerChar(s[i + k]) = ToLowerChar(sub[k])

\* some pattern of the group occurs in the model string
GroupHit(s, patterns) == \E k \in DOMAIN patterns : OccursNoCase(s, patterns[k])

IsByteCount(s) == Len(s) > 0 /\ \A i \in 1..Len(s) : s[i] \in DigitChars

\* a text with no digit in it
HasNoNumber(s) == \A i \in 1..Len(s) : s[i] \notin DigitChars

\* n/2^20 to the nearest integer, a half going to the even neighbour
NearestMiB(n) ==
    CHOOSE k \in {n \div MiB, (n \div MiB) + 1} :
        LET d == IF n >= k * MiB THEN n - k * MiB ELSE k * MiB - n
        IN  d < 524288 \/ (d = 524288 /\ k % 2 = 0)

\* n/2^30 with one decimal, for the counts of MemoryCounts at or above 2^30
OneDecimalGiB(n) ==
    CASE n = 1073741824 -> <<"1",".","0">>
      [] n = 1127428915 -> <<"1",".","0">>
      [] n = 1127428916 -> <<"1",".","1">>
      [] n = 1181116006 -> <<"1",".","1">>
      [] n = 1610612736 -> <<"1",".","5">>
      [] n = 2093796556 -> <<"1",".","9">>
      [] n = 2147483647 -> <<"2",".","0">>

BlankLine(line) == \A k \in 1..Len(line) : line[k] \in Whitespace

\* the lines a maximal run of non-blank lines starts at
RunStarts(lines) ==
    {i \in 1..Len(lines) : ~BlankLine(lines[i]) /\ (i = 1 \/ BlankLine(lines[i - 1]))}

\* the k-th of them
RunStart(starts, k) == CHOOSE i \in starts : Cardinality({j \in starts : j <= i}) = k

\* the last line of the run that starts at line i
RunLast(lines, i) == MaxOf({j \in i..Len(lines) : \A m \in i..j : ~BlankLine(lines[m])})

\* the lines of the run that starts at line i, with a line end between them
RunText(lines, i) ==
    LET upTo[j \in i..RunLast(lines, i)] ==
            IF j = i THEN lines[i] ELSE upTo[j - 1] \o NL \o lines[j]
    IN  upTo[RunLast(lines, i)]

\* a line "key: value" whose key has "name" in it
IsNameLine(line) ==
    \E c \in 1..Len(line) :
        /\ line[c] = ":" /\ \A m \in 1..(c - 1) : line[m] # ":"
        /\ OccursNoCase(SubSeq(line, 1, c - 1), <<"n","a","m","e">>)

\* the value of such a line: what follows its first colon, blanks trimmed
ValueOfLine(line) ==
    LET c == MinOf({m \in 1..Len(line) : line[m] = ":"})
    IN  TrimSpace(SubSeq(line, c + 1, Len(line)))

\* the model the run that starts at line i carries: the value of its last name line
RunModel(lines, i) ==
    ValueOfLine(lines[MaxOf({j \in i..RunLast(lines, i) : IsNameLine(lines[j])})])

\* the run carries a model, and a name that is neither empty nor generic
HasValidModel(lines, i) ==
    /\ \E j \in i..RunLast(lines, i) : IsNameLine(lines[j])
    /\ RunModel(lines, i) # EmptyStr /\ ~BlockListed(RunModel(lines, i))

\* C16: splitIntoBlocks returns one chunk per maximal run of non-blank lines,
\* in order, each the lines of its run, none empty; a key/value text of two
\* runs that each carry a valid non-generic model parses to two records, in
\* text order.
C16_OneCandidatePerBlock ==
    LET lines == Split(arg, NL)
        starts == RunStarts(lines)
    IN  /\ fn = "splitIntoBlocks returned" =>
              /\ Len(out) = Cardinality(starts)
              /\ \A k \in 1..Len(out) :
                    out[k] # EmptyStr /\ out[k] = RunText(lines, RunStart(starts, k))
        /\ (fn = "parseWindowsGPUOutput returned" /\ Cardinality(starts) = 2
               /\ \A i \in starts : HasValidModel(lines, i)) =>
              /\ Len(out) = 2
              /\ \A k \in 1..2 :
                    /\ out[k].Model = RunModel(lines, RunStart(starts, k))
                    /\ out[k].RawOutput = RunText(lines, RunStart(starts, k))

\* C16 witness: a text of two blocks with two blank lines between them was parsed to the two records, in text order
C16_Witness ==
    /\ fn = "parseWindowsGPUOutput returned"
    /\ arg = <<"N","a","m","e",":"," ","r","t","x","\n","\n"," ","\n","N","a","m","e",":"," ","a","r","c">>
    /\ Len(out) = 2 /\ out[1].Model = <<"r","t","x">> /\ out[2].Model = <<"a","r","c">>

\* the split of a text with blank lines before, between and after two runs
\* gave two chunks
C16_SplitWitness ==
    /\ fn = "splitIntoBlocks returned"
    /\ arg = <<" ","\n","N","a","m","e",":"," ","r","t","x","\n","\n","N","a","m","e",":"," ","a","r","c">>
    /\ out = <<<<"N","a","m","e",":"," ","r","t","x">>, <<"N","a","m","e",":"," ","a","r","c">>>>

\* C19: on Linux the simple lspci invocation runs exactly when the preferred
\* one failed; when the preferred one succeeded its records alone are the
\* result of the probe, even when there are none; when both failed the probe
\* gives no record and lshw runs next.
C19_LspciFallback ==
    (goos = "linux" /\ Len(calls) >= 1) =>
        /\ calls[1].cmd = "lspci -v"
        /\ IF calls[1].err # "nil"
           THEN /\ Len(calls) = 1 => (pc = "lspci" /\ gpus = <<>>)
                /\ Len(calls) >= 2 => calls[2].cmd = "lspci"
                /\ Len(calls) = 2 =>
                      (pc = "lshw" /\ gpus = IF calls[2].err # "nil" THEN <<>> ELSE calls[2].recs)
                /\ Len(calls) >= 3 => calls[3].cmd = "lshw"
           ELSE /\ Len(calls) = 1 => (pc = "lshw" /\ gpus = calls[1].recs)
                /\ Len(calls) >= 2 => calls[2].cmd = "lshw"
        /\ \A c \in 3..Len(calls) : calls[c].cmd \notin {"lspci -v", "lspci"}

\* C19 witness: both invocations failed and lshw ran next
C19_Witness ==
    /\ goos = "linux" /\ Len(calls) = 3
    /\ calls[1].cmd = "lspci -v" /\ calls[1].err # "nil"
    /\ calls[2].cmd = "lspci" /\ calls[2].err # "nil"
    /\ calls[3].cmd = "lshw"

\* the preferred invocation succeeded with no record and lshw ran next
C19_EmptyWitness ==
    /\ goos = "linux" /\ Len(calls) = 2
    /\ calls[1].err = "nil" /\ Len(calls[1].recs) = 0
    /\ calls[2].cmd = "lshw"

\* C20: a returned sequence that has a record with a non-empty error has that
\* record alone, on every platform; on Linux it has one exactly when nothing
\* was collected once lspci, lshw, the status file and glxinfo had all run.
C20_SentinelStandsAlone ==
    Returned =>
        /\ (\E i \in RetIndices : ret[i].Error # "") => Len(ret) = 1
        /\ goos = "linux" =>
              /\ calls[Len(calls)].cmd = "glxinfo"
              /\ {"lspci -v", "lshw", "nvidia proc"} \subseteq {calls[c].cmd : c \in 1..Len(calls)}
              /\ (\E i \in RetIndices : ret[i].Error # "") <=> Len(gpus) = 0
              /\ Len(gpus) > 0 => ret = gpus

\* C20 witness: on Linux lspci and glxinfo ran without error but gave no
\* record, nothing else was found, and the sentinel alone was returned
C20_Witness ==
    /\ goos = "linux" /\ Returned /\ Len(calls) = 4
    /\ calls[1].err = "nil" /\ calls[4].err = "nil"
    /\ \A c \in 1..4 : Len(calls[c].recs) = 0
    /\ Len(ret) = 1 /\ ret[1].Error # ""

----------------------------------------------------------------------------
(* Claims on the processor *)

\* C17: the fallback methods run only after the primary command failed, in the
\* order auto-detected format, MP4 format, minimal options, each only when
\* every run before it failed, none after a run succeeded; processVideo
\* returns an error exactly when the primary command and the three fallbacks
\* all failed.
C17_FallbackOrder ==
    LET n == Len(attempts)
        order == << "primary",
                    "Software encoding (libx264) with auto-detected output format",
                    "Software encoding (libx264) with MP4 format fallback",
                    "Basic software encoding (minimal options)" >>
        returned == ppc = "done" /\ n > 0
    IN  /\ n <= 4
        /\ \A i \in 1..n : attempts[i].method = order[i]
        /\ \A i \in 1..(n - 1) : attempts[i].err # "nil"
        /\ (ppc = "TryFallbacks") => (n >= 1 /\ \A i \in 1..n : attempts[i].err # "nil")
        /\ returned => (perr # "nil" <=> (n = 4 /\ \A i \in 1..4 : attempts[i].err # "nil"))
        /\ returned => (perr = "nil" <=> attempts[n].err = "nil")

\* C17 witness: the primary command and the first fallback failed, the MP4
\* fallback succeeded, the minimal one never ran
C17_Witness ==
    /\ ppc = "done" /\ perr = "nil" /\ Len(attempts) = 3
    /\ attempts[1].err # "nil" /\ attempts[2].err # "nil" /\ attempts[3].err = "nil"
    /\ attempts[3].method = "Software encoding (libx264) with MP4 format fallback"

\* the profile of a vendor on a host
ProfileOf(vendor, os) ==
    IF vendor = Nvidia THEN <<"cuda", "h264_nvenc", "medium">>
    ELSE IF vendor = Intel /\ os = "windows" THEN <<"qsv", "h264_qsv", "medium">>
    ELSE IF vendor = Amd /\ os = "windows" THEN <<"d3d11va", "h264_amf", "balanced">>
    ELSE IF vendor \in {Intel, Amd} THEN <<"vaapi", "h264_vaapi", "ultrafast">>
    ELSE IF vendor = Apple THEN <<"videotoolbox", "h264_videotoolbox", "balanced">>
    ELSE <<"none", "libx264", "medium">>

\* C18: the acceleration, codec and preset configureProcessing chooses are
\* fixed by the vendor of the first record and the host; with no record, or a
\* first vendor other than nvidia, amd, intel, apple, they are "none",
\* "libx264", "medium".
C18_FirstGPUDecides ==
    ppc \notin {"idle", "configureProcessing"} =>
        LET chosen == <<cfg.Acceleration, cfg.Codec, cfg.Preset>>
        IN  /\ Len(ret) > 0 => chosen = ProfileOf(ret[1].Vendor, goos)
            /\ (Len(ret) = 0 \/ ret[1].Vendor \notin {Nvidia, Amd, Intel, Apple})
                  => chosen = <<"none", "libx264", "medium">>

\* C18 witness: a first record of another vendor followed by an NVIDIA record
\* gave software encoding
C18_Witness ==
    /\ ppc = "getUserInput" /\ Len(ret) = 2
    /\ ret[1].Vendor = <<"m","a","t","r","o","x">> /\ ret[2].Vendor = Nvidia
    /\ cfg.Acceleration = "none" /\ cfg.Codec = "libx264" /\ cfg.Preset = "medium"

----------------------------------------------------------------------------
(* Further claims on mergeLinuxGPUInfo *)

\* before with the info fields it lacks taken from n
Filled(before, n) ==
    [f \in DOMAIN before |->
        IF f \in BackFilledFields /\ before[f] = EmptyStr THEN n[f] ELSE before[f]]

\* what one new record does to a sequence: the first record it matches is
\* filled and no other record changes, or, matching none, it is added at the end
AfterOne(before, n) ==
    LET hit == {i \in 1..Len(before) : Matches(before[i], n)}
    IN  IF hit = {} THEN before \o <<n>>
        ELSE [i \in 1..Len(before) |->
                 IF i = MinOf(hit) THEN Filled(before[i], n) ELSE before[i]]

\* the sequence after the first k new records
AfterFirst(k) ==
    LET upTo[j \in 0..k] == IF j = 0 THEN existing ELSE AfterOne(upTo[j - 1], new[j])
    IN  upTo[k]

\* the records of a that differ from the record of b at the same index
Changed(a, b) == {i \in 1..Len(a) : i > Len(b) \/ a[i] # b[i]}

\* C21: each new record, compared in index order with the result as it stands,
\* records added earlier in the call included, fills the first similar record
\* only or is added at the end, so it changes at most one record; the result
\* has at least len(existing) and at most len(existing) + len(new) records;
\* the call leaves the caller's existing sequence as it was.
C21_AtMostOneChange ==
    /\ [](mpc = "done" =>
            /\ result = AfterFirst(Len(new))
            /\ \A k \in 1..Len(new) :
                  /\ Cardinality(Changed(AfterFirst(k), AfterFirst(k - 1))) <= 1
                  /\ Len(AfterFirst(k)) \in {Len(AfterFirst(k - 1)), Len(AfterFirst(k - 1)) + 1}
            /\ Len(existing) <= Len(result)
            /\ Len(result) <= Len(existing) + Len(new))
    /\ [][existing' = existing /\ new' = new]_vars

\* C21 witness: two existing records similar to the new one both lacked the
\* memory; the first was filled, the second left as it was
C21_Witness ==
    /\ mpc = "done" /\ Len(existing) = 2 /\ Len(new) = 1 /\ Len(result) = 2
    /\ Matches(existing[1], new[1]) /\ Matches(existing[2], new[1])
    /\ existing[1].Memory = EmptyStr /\ existing[2].Memory = EmptyStr
    /\ new[1].Memory # EmptyStr
    /\ result[1].Memory = new[1].Memory
    /\ result[2] = existing[2]

\* the second new record filled the record the first one had added
C21_AppendedWitness ==
    /\ mpc = "done" /\ existing = <<>> /\ Len(new) = 2 /\ Len(result) = 1
    /\ new[1].Memory = EmptyStr /\ new[2].Memory # EmptyStr
    /\ result[1].Model = new[1].Model /\ result[1].Memory = new[2].Memory

====
